---------------------------- MODULE Spec2Model ----------------------------
(***************************************************************************)
(* Model of src/document_processor.py (OfflineDocumentProcessor).           *)
(*                                                                         *)
(* A Python str is a sequence of one-character strings.  The pure methods  *)
(* (clean_text, split_sections, extract_keywords,                          *)
(* calculate_relevance_score, summarize_text, extract_title_from_text) are *)
(* operators that compute what the code computes; process_documents is a   *)
(* step machine.  Scores are floats in the code; every score the code      *)
(* produces is (k/2) * m1 * m2 with m1 in {0.8, 1, 1.2} and m2 in {1, 1.3}, *)
(* so the model carries the integer 200 * score.                           *)
(***************************************************************************)
EXTENDS Integers, Sequences, FiniteSets, TLC

VARIABLES
    \* split_sections, one call (SegSpec)
    sp_pc, sp_raw, sp_min, sp_text, sp_sections, sp_groups, sp_out,
    \* calculate_relevance_score on a growing section (ScoreSpec)
    sc_task, sc_persona, sc_section, sc_added,
    \* summarize_text, one call (SumSpec)
    su_pc, su_text, su_max, su_out,
    \* extract_title_from_text, one call (TitleSpec)
    ti_pc, ti_text, ti_max, ti_out,
    \* process_documents, one run (RunSpec)
    pc, cfg, documents, top_k, doc_i, opened, input_documents,
    all_scored_sections, top_sections, extracted_sections,
    subsection_analysis, writes, write_failed

segVars   == <<sp_pc, sp_raw, sp_min, sp_text, sp_sections, sp_groups, sp_out>>
scoreVars == <<sc_task, sc_persona, sc_section, sc_added>>
sumVars   == <<su_pc, su_text, su_max, su_out>>
titleVars == <<ti_pc, ti_text, ti_max, ti_out>>
runVars   == <<pc, cfg, documents, top_k, doc_i, opened, input_documents,
               all_scored_sections, top_sections, extracted_sections,
               subsection_analysis, writes, write_failed>>
vars      == <<segVars, scoreVars, sumVars, titleVars, runVars>>

(***************************************************************************)
(* Characters and the str methods the code uses.                           *)
(***************************************************************************)
LowerLetters == <<"a","b","c","d","e","f","g","h","i","j","k","l","m","n","o","p","q","r","s","t","u","v","w","x","y","z">>
UpperLetters == <<"A","B","C","D","E","F","G","H","I","J","K","L","M","N","O","P","Q","R","S","T","U","V","W","X","Y","Z">>
Digits       == <<"0","1","2","3","4","5","6","7","8","9">>

Range(s) == {s[i] : i \in 1..Len(s)}

\* \s of the re module / the separators of str.split() and str.strip()
SpaceChars == {" ", "\n", "\t", "\r"}
IsSpace(c) == c \in SpaceChars

\* \w of the re module
WordChars ==
    Range(LowerLetters) \cup Range(UpperLetters) \cup Range(Digits) \cup {"_"}
IsWordChar(c) == c \in WordChars

\* the punctuation clean_text keeps: . , ! ? ; : - ( )
KeptPunct == {".", ",", "!", "?", ";", ":", "-", "(", ")"}
IsKeptPunct(c) == c \in KeptPunct

LowerOf == [c \in Range(UpperLetters) |->
              LowerLetters[CHOOSE i \in 1..26 : UpperLetters[i] = c]]

\* a list or str given element by element, as a tuple
List(f) == SubSeq(f, 1, Len(f))

\* str.lower()
lower(s) ==
    List([i \in 1..Len(s) |-> IF s[i] \in DOMAIN LowerOf THEN LowerOf[s[i]] ELSE s[i]])

\* str.strip()
strip(s) ==
    LET keep == {i \in 1..Len(s) : ~IsSpace(s[i])}
    IN  IF keep = {} THEN <<>>
        ELSE LET lo == CHOOSE i \in keep : \A j \in keep : i <= j
                 hi == CHOOSE i \in keep : \A j \in keep : j <= i
             IN  SubSeq(s, lo, hi)

\* the members of the index set K within lo..hi, ascending
RECURSIVE SortedIdx(_, _, _)
SortedIdx(K, lo, hi) ==
    IF lo > hi THEN <<>>
    ELSE IF lo = hi THEN (IF lo \in K THEN <<lo>> ELSE <<>>)
    ELSE LET mid == (lo + hi) \div 2
         IN  SortedIdx(K, lo, mid) \o SortedIdx(K, mid + 1, hi)

\* the least index in from..Len(s) whose character is in the class (inside)
\* or out of it (~inside), or Len(s)+1
RunEnd(s, from, class, inside) ==
    LET hits == {j \in from..Len(s) : (s[j] \in class) = inside}
    IN  IF hits = {} THEN Len(s) + 1
        ELSE CHOOSE j \in hits : \A k \in hits : j <= k

\* str.split() with no separator: the maximal runs of non-whitespace
split(s) ==
    LET starts == {i \in 1..Len(s) : ~IsSpace(s[i]) /\ (i = 1 \/ IsSpace(s[i - 1]))}
        idx    == SortedIdx(starts, 1, Len(s))
    IN  List([j \in 1..Len(idx) |-> SubSeq(s, idx[j], RunEnd(s, idx[j], SpaceChars, TRUE) - 1)])

\* len(s.split())
WordCount(s) ==
    Cardinality({i \in 1..Len(s) : ~IsSpace(s[i]) /\ (i = 1 \/ IsSpace(s[i - 1]))})

\* needle in hay (substring containment)
Contains(hay, needle) ==
    \E i \in 1..(Len(hay) - Len(needle) + 1) :
        \A j \in 1..Len(needle) : hay[i + j - 1] = needle[j]

\* s.split(sep) for a non-empty separator: cut at each occurrence, left to right
RECURSIVE SplitSep(_, _, _)
SplitSep(s, sep, from) ==
    LET At(i) == \A j \in 1..Len(sep) : s[i + j - 1] = sep[j]
        hits  == {i \in from..(Len(s) - Len(sep) + 1) : At(i)}
    IN  IF hits = {} THEN <<SubSeq(s, from, Len(s))>>
        ELSE LET i == CHOOSE h \in hits : \A g \in hits : h <= g
             IN  <<SubSeq(s, from, i - 1)>> \o SplitSep(s, sep, i + Len(sep))

splitOn(s, sep) == SplitSep(s, sep, 1)

\* re.split(r'[.!?]+', s): the pieces between maximal runs of . ! ?
StopChars == {".", "!", "?"}
IsStop(c) == c \in StopChars

re_split_stops(s) ==
    LET ends == {i \in 1..Len(s) : IsStop(s[i]) /\ (i = Len(s) \/ ~IsStop(s[i + 1]))}
        idx  == SortedIdx(ends, 1, Len(s))
    IN  <<SubSeq(s, 1, RunEnd(s, 1, StopChars, TRUE) - 1)>> \o
        List([j \in 1..Len(idx) |->
                  SubSeq(s, idx[j] + 1, RunEnd(s, idx[j] + 1, StopChars, TRUE) - 1)])

\* sep.join(parts[lo..hi])
RECURSIVE JoinRange(_, _, _, _)
JoinRange(sep, parts, lo, hi) ==
    IF lo > hi THEN <<>>
    ELSE IF lo = hi THEN parts[lo]
    ELSE LET mid == (lo + hi) \div 2
         IN  JoinRange(sep, parts, lo, mid) \o sep \o JoinRange(sep, parts, mid + 1, hi)

\* sep.join(parts)
join(sep, parts) == JoinRange(sep, parts, 1, Len(parts))

\* x in list
InSeq(x, list) == \E i \in 1..Len(list) : list[i] = x

Min(a, b) == IF a <= b THEN a ELSE b

(***************************************************************************)
(* clean_text (lines 52-58)                                                *)
(***************************************************************************)
\* re.sub(r'\s+', ' ', text)
CollapseWS(s) ==
    LET keep == {i \in 1..Len(s) : ~(IsSpace(s[i]) /\ i > 1 /\ IsSpace(s[i - 1]))}
        idx  == SortedIdx(keep, 1, Len(s))
    IN  List([j \in 1..Len(idx) |-> IF IsSpace(s[idx[j]]) THEN " " ELSE s[idx[j]]])

\* re.sub(r'[^\w\s\.\,\!\?\;\:\-\(\)]', ' ', text)
BlankSpecial(s) ==
    List([i \in 1..Len(s) |->
             IF IsWordChar(s[i]) \/ IsSpace(s[i]) \/ IsKeptPunct(s[i]) THEN s[i] ELSE " "])

\* clean_text without the whitespace collapse of line 55
clean_text_no_collapse(text) == strip(BlankSpecial(text))

clean_text(text) == strip(BlankSpecial(CollapseWS(text)))

(***************************************************************************)
(* split_sections (lines 60-111)                                           *)
(***************************************************************************)
\* min_words: int = 15 (line 60)
DefaultMinWords == 15

\* unique_sections[:15] (line 111)
MaxSections == 15

\* the stages run "if len(sections) < 3" (lines 73, 79)
EnoughSections == 3

\* [s.strip() for s in parts if <cond>]
RECURSIVE StripWhere(_, _, _)
StripWhere(parts, keepIdx, i) ==
    IF i > Len(parts) THEN <<>>
    ELSE IF i \in keepIdx
         THEN <<strip(parts[i])>> \o StripWhere(parts, keepIdx, i + 1)
         ELSE StripWhere(parts, keepIdx, i + 1)

\* a off-by-one threshold
MeetsMinLoose(s, min_words) == WordCount(s) >= min_words - 1

\* len(s.split()) >= min_words (lines 69, 75, 107)
MeetsMin(s, min_words) == WordCount(s) >= min_words

\* lines 69-70: split on blank lines
DoubleNewlineSections(text, min_words) ==
    LET parts == splitOn(text, <<"\n", "\n">>)
    IN  StripWhere(parts, {i \in 1..Len(parts) : MeetsMin(parts[i], min_words)}, 1)

\* lines 74-75: split on single newlines, skipping what stage 1 already gave
SingleNewlineSections(text, sections, min_words) ==
    LET parts == splitOn(text, <<"\n">>)
    IN  StripWhere(parts,
                   {i \in 1..Len(parts) : /\ MeetsMin(parts[i], min_words)
                                          /\ ~InSeq(strip(parts[i]), sections)}, 1)

\* '. '.join(current_group) + '.' (line 95)
GroupText(group) == join(<<".", " ">>, group) \o <<".">>

\* the loop body without the reset of lines 98-99
GroupStepNoReset(st, raw, sections, min_words) ==
    LET sentence == strip(raw)
        group    == Append(st.current_group, sentence)
        count    == st.current_word_count + WordCount(sentence)
    IN  IF sentence = <<>> THEN st
        ELSE IF count >= min_words
             THEN [current_group |-> group, current_word_count |-> count,
                   sentence_groups |->
                       IF InSeq(GroupText(group), sections) THEN st.sentence_groups
                       ELSE Append(st.sentence_groups, GroupText(group))]
             ELSE [st EXCEPT !.current_group = group, !.current_word_count = count]

\* one iteration of "for sentence in sentences" (lines 85-99)
GroupStep(st, raw, sections, min_words) ==
    LET sentence == strip(raw)
        group    == Append(st.current_group, sentence)
        count    == st.current_word_count + WordCount(sentence)
    IN  IF sentence = <<>> THEN st
        ELSE IF count >= min_words
             THEN [current_group |-> <<>>, current_word_count |-> 0,
                   sentence_groups |->
                       IF InSeq(GroupText(group), sections) THEN st.sentence_groups
                       ELSE Append(st.sentence_groups, GroupText(group))]
             ELSE [st EXCEPT !.current_group = group, !.current_word_count = count]

RECURSIVE GroupLoop(_, _, _, _, _)
GroupLoop(sentences, i, st, sections, min_words) ==
    IF i > Len(sentences) THEN st
    ELSE GroupLoop(sentences, i + 1,
                   GroupStep(st, sentences[i], sections, min_words),
                   sections, min_words)

\* lines 80-99: the sentence groups stage 3 appends to sections
SentenceGroups(text, sections, min_words) ==
    GroupLoop(re_split_stops(text), 1,
              [current_group |-> <<>>, current_word_count |-> 0,
               sentence_groups |-> <<>>],
              sections, min_words).sentence_groups

\* lines 104-109: drop repeats keeping the first, re-filter by min_words
RECURSIVE UniqueSections(_, _, _, _)
UniqueSections(sections, i, min_words, acc) ==
    IF i > Len(sections) THEN acc
    ELSE IF ~InSeq(sections[i], acc) /\ MeetsMin(sections[i], min_words)
         THEN UniqueSections(sections, i + 1, min_words, Append(acc, sections[i]))
         ELSE UniqueSections(sections, i + 1, min_words, acc)

\* unique_sections[:15] (line 111)
Limit(list) == SubSeq(list, 1, Min(Len(list), MaxSections))

\* sections after lines 66-76
AfterNewlineStages(text, min_words) ==
    LET s1 == DoubleNewlineSections(text, min_words)
    IN  IF Len(s1) < EnoughSections
        THEN s1 \o SingleNewlineSections(text, s1, min_words)
        ELSE s1

\* sections after lines 78-101
AfterSentenceStage(text, sections, min_words) ==
    IF Len(sections) < EnoughSections
    THEN sections \o SentenceGroups(text, sections, min_words)
    ELSE sections

split_sections(raw, min_words) ==
    LET text == clean_text(raw)
        s12  == AfterNewlineStages(text, min_words)
        s123 == AfterSentenceStage(text, s12, min_words)
    IN  Limit(UniqueSections(s123, 1, min_words, <<>>))

(***************************************************************************)
(* SegSpec: one call of split_sections, stage by stage.                    *)
(***************************************************************************)
MaxTextLen  == 5
MaxMinWords == 3
MaxLongSentences == 16
MaxSentences == 5

SegAlphabet == {"a", " ", "\n", ".", "#"}

SmallTexts == UNION {[1..n -> SegAlphabet] : n \in 0..MaxTextLen}

\* "a.\naa.\naaa. ..." with k lines: k distinct one-word sentences
RECURSIVE Ladder(_)
Ladder(k) ==
    IF k = 0 THEN <<>>
    ELSE Ladder(k - 1) \o (IF k = 1 THEN <<>> ELSE <<"\n">>)
         \o List([i \in 1..k |-> "a"]) \o <<".">>

LongTexts == {Ladder(k) : k \in (MaxLongSentences - 3)..MaxLongSentences}

\* n words "w", one sentence
Pad(n) == List([i \in 1..(2 * n - 1) |-> IF i % 2 = 1 THEN "w" ELSE " "])

\* pages around the default threshold: 14..16 words, then a short tail
DefaultTexts ==
    {Pad(n) \o tail : n \in (DefaultMinWords - 1)..(DefaultMinWords + 1),
                      tail \in {<<>>, <<".">>, <<".", "\n", "a", " ", "a">>}}

\* texts of up to MaxSentences sentences of one or two words each
SizedSentences(sizes) ==
    join(<<" ">>, List([i \in 1..Len(sizes) |-> Pad(sizes[i]) \o <<".">>]))

SentenceTexts ==
    {SizedSentences(sizes) : sizes \in UNION {[1..n -> 1..2] : n \in 1..MaxSentences}}

SegIdle ==
    /\ sp_pc = "idle" /\ sp_raw = <<>> /\ sp_min = 0 /\ sp_text = <<>>
    /\ sp_sections = <<>> /\ sp_groups = <<>> /\ sp_out = <<>>
ScoreIdle ==
    /\ sc_task = <<>> /\ sc_persona = <<>> /\ sc_section = <<>> /\ sc_added = 0
SumIdle ==
    /\ su_pc = "idle" /\ su_text = <<>> /\ su_max = 0 /\ su_out = <<>>
TitleIdle ==
    /\ ti_pc = "idle" /\ ti_text = <<>> /\ ti_max = 0 /\ ti_out = <<>>
RunIdle ==
    /\ pc = "idle" /\ cfg = "none" /\ documents = <<>> /\ top_k = 0
    /\ doc_i = 0 /\ opened = <<>> /\ input_documents = <<>>
    /\ all_scored_sections = <<>> /\ top_sections = <<>>
    /\ extracted_sections = <<>> /\ subsection_analysis = <<>>
    /\ writes = 0 /\ write_failed = FALSE

SegInit ==
    /\ sp_pc = "clean"
    /\ \/ sp_raw \in SmallTexts /\ sp_min \in 0..MaxMinWords
       \/ sp_raw \in LongTexts /\ sp_min = 1
       \/ sp_raw \in SentenceTexts /\ sp_min \in 2..MaxMinWords
       \/ sp_raw \in DefaultTexts /\ sp_min = DefaultMinWords
    /\ sp_text = <<>> /\ sp_sections = <<>> /\ sp_groups = <<>> /\ sp_out = <<>>
    /\ ScoreIdle /\ SumIdle /\ TitleIdle /\ RunIdle

\* line 63
SegClean ==
    /\ sp_pc = "clean"
    /\ sp_text' = clean_text(sp_raw)
    /\ sp_pc' = "newlines"
    /\ UNCHANGED <<sp_raw, sp_min, sp_sections, sp_groups, sp_out>>
    /\ UNCHANGED <<scoreVars, sumVars, titleVars, runVars>>

\* lines 66-76
SegNewlines ==
    /\ sp_pc = "newlines"
    /\ sp_sections' = AfterNewlineStages(sp_text, sp_min)
    /\ sp_pc' = "sentences"
    /\ UNCHANGED <<sp_raw, sp_min, sp_text, sp_groups, sp_out>>
    /\ UNCHANGED <<scoreVars, sumVars, titleVars, runVars>>

\* lines 78-101
SegSentences ==
    /\ sp_pc = "sentences"
    /\ sp_groups' = IF Len(sp_sections) < EnoughSections
                    THEN SentenceGroups(sp_text, sp_sections, sp_min)
                    ELSE <<>>
    /\ sp_sections' = AfterSentenceStage(sp_text, sp_sections, sp_min)
    /\ sp_pc' = "unique"
    /\ UNCHANGED <<sp_raw, sp_min, sp_text, sp_out>>
    /\ UNCHANGED <<scoreVars, sumVars, titleVars, runVars>>

\* lines 103-111
SegUnique ==
    /\ sp_pc = "unique"
    /\ sp_out' = Limit(UniqueSections(sp_sections, 1, sp_min, <<>>))
    /\ sp_pc' = "done"
    /\ UNCHANGED <<sp_raw, sp_min, sp_text, sp_sections, sp_groups>>
    /\ UNCHANGED <<scoreVars, sumVars, titleVars, runVars>>

SegNext == SegClean \/ SegNewlines \/ SegSentences \/ SegUnique

SegSpec == SegInit /\ [][SegNext]_vars

(***************************************************************************)
(* Properties of split_sections (SegSpec).                                 *)
(***************************************************************************)
AllMeetMin(list) == \A i \in 1..Len(list) : WordCount(list[i]) >= sp_min

\* C3: every section split_sections returns, and every candidate each of
\* its stages produces (blank-line and single-line candidates, sentence
\* groups rebuilt with ". "), has a whitespace-delimited word count of at
\* least min_words.
C3_SectionsMeetMinWords ==
    /\ sp_pc \in {"sentences", "unique", "done"} => AllMeetMin(sp_sections)
    /\ sp_pc \in {"unique", "done"} => AllMeetMin(sp_groups)
    /\ sp_pc = "done" => AllMeetMin(sp_out)

\* a call with min_words >= 2 that returned the whole page and a rebuilt
\* sentence group of several sentences
C3_Witness ==
    /\ sp_pc = "done" /\ sp_min >= 2 /\ Len(sp_out) >= 2
    /\ \E i \in 1..Len(sp_groups) :
           /\ Contains(sp_groups[i], <<".", " ">>)
           /\ InSeq(sp_groups[i], sp_out)

\* The non-empty sentences of the normalized text, in source order.
NonEmptySentences(text) ==
    LET raw == re_split_stops(text)
    IN  SelectSeq(List([i \in 1..Len(raw) |-> strip(raw[i])]), LAMBDA s : s # <<>>)

RECURSIVE SumWords(_, _, _)
SumWords(ss, lo, hi) ==
    IF lo > hi THEN 0 ELSE WordCount(ss[hi]) + SumWords(ss, lo, hi - 1)

\* The sentence at which the group starting after sentence p closes: the
\* first b whose group p+1..b holds at least min_words words (so that
\* p+1..b-1 holds fewer); 0 when the rest never reaches min_words.
RefCut(ss, p, min_words) ==
    LET reach == {b \in (p + 1)..Len(ss) : SumWords(ss, p + 1, b) >= min_words}
    IN  IF reach = {} THEN 0
        ELSE CHOOSE b \in reach : \A c \in reach : b <= c

\* The consecutive groups, as the joined text of each, in source order; the
\* sentences after the last cut are in no group.
RECURSIVE RefGroups(_, _, _)
RefGroups(ss, p, min_words) ==
    LET b == RefCut(ss, p, min_words)
    IN  IF b = 0 THEN <<>>
        ELSE <<GroupText(SubSeq(ss, p + 1, b))>> \o RefGroups(ss, b, min_words)

\* the candidates the newline stages had collected when stage 3 ran
PriorSections == SubSeq(sp_sections, 1, Len(sp_sections) - Len(sp_groups))

\* C9 (as stated): the sentence stage emits, in source order, exactly the
\* consecutive groups that each close at the first sentence where the
\* running word count reaches min_words; a trailing group below min_words
\* is not emitted.
C9_EveryClosedGroupEmitted ==
    sp_pc \in {"unique", "done"} =>
        sp_groups = RefGroups(NonEmptySentences(sp_text), 0, sp_min)

\* C9 (amended): as above, except that a closed group whose joined text is
\* already among the candidates of the newline stages is not emitted again.
C9_GroupsAreGreedyPartition ==
    sp_pc \in {"unique", "done"} =>
        sp_groups = SelectSeq(RefGroups(NonEmptySentences(sp_text), 0, sp_min),
                              LAMBDA g : ~InSeq(g, PriorSections))

\* two groups emitted, the first of several sentences, and a trailing
\* partial group dropped
C9_Witness ==
    /\ sp_pc = "done" /\ sp_min >= 2 /\ Len(sp_groups) >= 2
    /\ Contains(sp_groups[1], <<".", " ">>)
    /\ LET ss == NonEmptySentences(sp_text)
       IN  \E p \in 1..(Len(ss) - 1) :
               /\ RefCut(ss, p, sp_min) = 0
               /\ RefCut(ss, 0, sp_min) # 0

\* C10: the normalized text holds no newline; the blank-line and
\* single-line stages together give exactly the whole normalized text when
\* it has at least min_words words and nothing otherwise, so the sentence
\* stage always runs; the whole normalized text is then the first section
\* returned; the returned sections are pairwise distinct and at most 15.
C10_NewlineStagesGiveWholeText ==
    /\ sp_pc # "clean" => ~("\n" \in Range(sp_text))
    /\ sp_pc = "sentences" =>
           /\ sp_sections = IF WordCount(sp_text) >= sp_min
                            THEN <<sp_text>> ELSE <<>>
           /\ Len(sp_sections) < EnoughSections
    /\ sp_pc = "done" =>
           /\ WordCount(sp_text) >= sp_min =>
                  Len(sp_out) >= 1 /\ sp_out[1] = sp_text
           /\ \A i, j \in 1..Len(sp_out) : i # j => sp_out[i] # sp_out[j]
           /\ Len(sp_out) <= MaxSections

\* a page with line breaks whose candidates exceeded the limit of 15
C10_Witness ==
    /\ sp_pc = "done" /\ "\n" \in Range(sp_raw)
    /\ Len(sp_sections) > MaxSections /\ Len(sp_out) = MaxSections
    /\ sp_out[1] = sp_text

(***************************************************************************)
(* extract_keywords (lines 113-134)                                        *)
(***************************************************************************)
\* stop_words (lines 119-125)
stop_words == {
    <<"t","h","e">>, <<"a">>, <<"a","n">>, <<"a","n","d">>, <<"o","r">>, <<"b","u","t">>, <<"i","n">>, <<"o","n">>,
    <<"a","t">>, <<"t","o">>, <<"f","o","r">>, <<"o","f">>, <<"w","i","t","h">>, <<"b","y">>,
    <<"f","r","o","m">>, <<"a","s">>, <<"i","s">>, <<"a","r","e">>, <<"w","a","s">>, <<"w","e","r","e">>, <<"b","e">>,
    <<"b","e","e","n">>, <<"b","e","i","n","g">>, <<"h","a","v","e">>, <<"h","a","s">>, <<"h","a","d">>,
    <<"d","o">>, <<"d","o","e","s">>, <<"d","i","d">>, <<"w","i","l","l">>, <<"w","o","u","l","d">>, <<"c","o","u","l","d">>,
    <<"s","h","o","u","l","d">>, <<"m","a","y">>, <<"m","i","g","h","t">>, <<"c","a","n">>, <<"s","h","a","l","l">>,
    <<"t","h","i","s">>, <<"t","h","a","t">>, <<"t","h","e","s","e">>, <<"t","h","o","s","e">>, <<"i">>, <<"y","o","u">>, <<"h","e">>,
    <<"s","h","e">>, <<"i","t">>, <<"w","e">>, <<"t","h","e","y">>, <<"m","e">>,
    <<"h","i","m">>, <<"h","e","r">>, <<"u","s">>, <<"t","h","e","m">>, <<"m","y">>, <<"y","o","u","r">>, <<"h","i","s">>,
    <<"i","t","s">>, <<"o","u","r">>, <<"t","h","e","i","r">> }

\* \w{3,} (line 128)
MinKeywordLen == 3

\* most_common(20) (line 134)
MaxKeywords == 20

\* re.findall(r'\b\w{3,}\b', text): the maximal runs of word characters of
\* length >= 3
findall_words(s) ==
    LET starts == {i \in 1..Len(s) : IsWordChar(s[i]) /\ (i = 1 \/ ~IsWordChar(s[i - 1]))}
        long   == {i \in starts : RunEnd(s, i, WordChars, FALSE) - i >= MinKeywordLen}
        idx    == SortedIdx(long, 1, Len(s))
    IN  List([j \in 1..Len(idx) |-> SubSeq(s, idx[j], RunEnd(s, idx[j], WordChars, FALSE) - 1)])

\* Counter(words).most_common(n): distinct words by descending count, equal
\* counts in order of first occurrence
most_common(words, n) ==
    LET first == {i \in 1..Len(words) : \A k \in 1..(i - 1) : words[k] # words[i]}
        Count(i) == Cardinality({k \in 1..Len(words) : words[k] = words[i]})
        Before(k, i) == Count(k) > Count(i) \/ (Count(k) = Count(i) /\ k < i)
        Rank(i) == Cardinality({k \in first : Before(k, i)}) + 1
    IN  List([r \in 1..Min(n, Cardinality(first)) |->
                 words[CHOOSE i \in first : Rank(i) = r]])

extract_keywords(text) ==
    LET cleaned == clean_text(lower(text))
        found   == findall_words(cleaned)
        words   == SelectSeq(found, LAMBDA w : w \notin stop_words)
    IN  most_common(words, MaxKeywords)

(***************************************************************************)
(* calculate_relevance_score (lines 136-181)                               *)
(***************************************************************************)
\* self.domain_keywords (lines 26-33)
domain_keywords == <<
    \* hr
    <<<<"e","m","p","l","o","y","e","e">>, <<"o","n","b","o","a","r","d","i","n","g">>, <<"c","o","m","p","l","i","a","n","c","e">>, <<"f","o","r","m">>, <<"p","o","l","i","c","y">>,
      <<"t","r","a","i","n","i","n","g">>, <<"b","e","n","e","f","i","t","s">>, <<"h","i","r","i","n","g">>, <<"r","e","c","r","u","i","t","m","e","n","t">>, <<"p","e","r","f","o","r","m","a","n","c","e">>>>,
    \* forms
    <<<<"f","i","l","l","a","b","l","e">>, <<"i","n","t","e","r","a","c","t","i","v","e">>, <<"f","i","e","l","d">>, <<"f","o","r","m">>, <<"s","i","g","n","a","t","u","r","e">>,
      <<"f","i","l","l">>, <<"s","i","g","n">>, <<"i","n","p","u","t">>, <<"c","h","e","c","k","b","o","x">>, <<"t","e","x","t"," ","f","i","e","l","d">>>>,
    \* acrobat
    <<<<"p","d","f">>, <<"a","c","r","o","b","a","t">>, <<"a","d","o","b","e">>, <<"c","o","n","v","e","r","t">>, <<"c","r","e","a","t","e">>, <<"e","d","i","t">>,
      <<"e","x","p","o","r","t">>, <<"s","h","a","r","e">>, <<"s","i","g","n","a","t","u","r","e">>, <<"f","o","r","m">>>>,
    \* technical
    <<<<"a","p","i">>, <<"c","o","d","e">>, <<"f","u","n","c","t","i","o","n">>, <<"m","e","t","h","o","d">>, <<"p","a","r","a","m","e","t","e","r">>,
      <<"c","o","n","f","i","g","u","r","a","t","i","o","n">>, <<"s","e","t","u","p">>, <<"i","n","s","t","a","l","l">>>>,
    \* business
    <<<<"p","r","o","c","e","s","s">>, <<"w","o","r","k","f","l","o","w">>, <<"m","a","n","a","g","e","m","e","n","t">>, <<"s","t","r","a","t","e","g","y">>, <<"p","l","a","n","n","i","n","g">>,
      <<"a","n","a","l","y","s","i","s">>, <<"r","e","p","o","r","t">>>>,
    \* travel
    <<<<"i","t","i","n","e","r","a","r","y">>, <<"b","o","o","k","i","n","g">>, <<"h","o","t","e","l">>, <<"f","l","i","g","h","t">>, <<"d","e","s","t","i","n","a","t","i","o","n">>,
      <<"t","r","a","v","e","l">>, <<"t","r","i","p">>, <<"v","a","c","a","t","i","o","n">>>> >>

\* action_words (line 166)
action_words == <<<<"c","r","e","a","t","e">>, <<"m","a","n","a","g","e">>, <<"f","i","l","l">>, <<"s","i","g","n">>, <<"c","o","n","v","e","r","t">>,
                  <<"e","d","i","t">>, <<"e","x","p","o","r","t">>, <<"s","h","a","r","e">>, <<"p","r","o","c","e","s","s">>>>

\* the instructional phrases of line 178
instruction_phrases == <<<<"s","t","e","p">>, <<"h","o","w"," ","t","o">>, <<"t","o"," ","c","r","e","a","t","e">>, <<"t","o"," ","f","i","l","l">>,
                         <<"t","o"," ","s","i","g","n">>, <<"p","r","o","c","e","d","u","r","e">>, <<"i","n","s","t","r","u","c","t","i","o","n","s">>>>

\* sum(1 for keyword in keywords if keyword in text)
CountIn(keywords, text) ==
    Cardinality({i \in 1..Len(keywords) : Contains(text, keywords[i])})

\* the weights of lines 154, 155, 163, 168, doubled
TaskWeight2    == 4
PersonaWeight2 == 3
DomainWeight2  == 2
ActionWeight2  == 3

\* lines 172 and 174
LongSection  == 50
ShortSection == 20

\* the length multiplier with its two cases exchanged
LengthFactor10Swapped(word_count) ==
    IF word_count > LongSection THEN 8
    ELSE IF word_count < ShortSection THEN 12
    ELSE 10

\* lines 171-175: 1.2, 0.8 or 1, times 10
LengthFactor10(word_count) ==
    IF word_count > LongSection THEN 12
    ELSE IF word_count < ShortSection THEN 8
    ELSE 10

\* lines 178-179: 1.3 or 1, times 10
InstructionFactor10(section_lower) ==
    IF \E i \in 1..Len(instruction_phrases) :
           Contains(section_lower, instruction_phrases[i])
    THEN 13 ELSE 10

\* lines 159-163: the bonus of the domains the task and persona activate
DomainBonus(section_lower, combined_text) ==
    LET Active(d) == CountIn(domain_keywords[d], combined_text) > 0
        Bonus(d)  == IF Active(d) THEN CountIn(domain_keywords[d], section_lower) ELSE 0
    IN  Bonus(1) + Bonus(2) + Bonus(3) + Bonus(4) + Bonus(5) + Bonus(6)

\* 200 * calculate_relevance_score(section, task_text, persona).  The
\* float products of the code round monotonically, so comparing these
\* integers orders the scores as the code's floats are ordered whenever the
\* integers differ.
calculate_relevance_score(section, task_text, persona) ==
    LET section_lower    == lower(section)
        task_lower       == lower(task_text)
        persona_lower    == lower(persona)
        task_keywords    == extract_keywords(task_lower)
        persona_keywords == extract_keywords(persona_lower)
        task_matches     == CountIn(task_keywords, section_lower)
        persona_matches  == CountIn(persona_keywords, section_lower)
        combined_text    == task_lower \o <<" ">> \o persona_lower
        action_matches   == CountIn(action_words, section_lower)
        score2 == task_matches * TaskWeight2 + persona_matches * PersonaWeight2
                  + DomainBonus(section_lower, combined_text) * DomainWeight2
                  + action_matches * ActionWeight2
    IN  score2 * LengthFactor10(WordCount(section)) * InstructionFactor10(section_lower)

(***************************************************************************)
(* ScoreSpec: a section scored, then scored again after task keywords are  *)
(* appended to it.                                                         *)
(***************************************************************************)
MaxAdded == 2
PadSpread == 3

Contexts == {
    [task |-> <<"c","r","e","a","t","e"," ","o","n","b","o","a","r","d","i","n","g"," ","f","o","r","m","s"," ","f","o","r"," ","n","e","w"," ","e","m","p","l","o","y","e","e","s">>, persona |-> <<"H","R"," ","M","a","n","a","g","e","r">>],
    [task |-> <<"P","r","o","c","e","s","s"," ","d","o","c","u","m","e","n","t","s">>, persona |-> <<"U","s","e","r">>] }

Openings == { <<>>, <<"T","o"," ","f","i","l","l"," ","t","h","e"," ","f","o","r","m",":"," ">>, <<"M","a","n","a","g","e","r","s"," ","s","h","a","r","e"," ","r","e","p","o","r","t","s","."," ">> }

\* word counts just below the two thresholds of the length multiplier
TotalWords == ((ShortSection - PadSpread)..(ShortSection - 1))
            \cup ((LongSection - PadSpread + 1)..LongSection)

BaseSections == {o \o Pad(n - WordCount(o)) : o \in Openings, n \in TotalWords}

ScoreInit ==
    /\ \E c \in Contexts : sc_task = c.task /\ sc_persona = c.persona
    /\ sc_section \in BaseSections
    /\ sc_added = 0
    /\ SegIdle /\ SumIdle /\ TitleIdle /\ RunIdle

\* one more occurrence of a task keyword appended as a separate word
AppendKeyword ==
    /\ sc_added < MaxAdded
    /\ \E kw \in Range(extract_keywords(lower(sc_task))) :
           sc_section' = sc_section \o <<" ">> \o kw
    /\ sc_added' = sc_added + 1
    /\ UNCHANGED <<sc_task, sc_persona>>
    /\ UNCHANGED <<segVars, sumVars, titleVars, runVars>>

ScoreNext == AppendKeyword

ScoreSpec == ScoreInit /\ [][ScoreNext]_vars

(***************************************************************************)
(* Properties of calculate_relevance_score (ScoreSpec).                    *)
(***************************************************************************)
\* C6: for a fixed task and persona, appending further occurrences of a
\* task keyword to a section never lowers its relevance score; the length
\* multiplier and the instructional boost never make the score drop.
C6_AppendNeverLowersScore ==
    [][calculate_relevance_score(sc_section', sc_task, sc_persona)
           >= calculate_relevance_score(sc_section, sc_task, sc_persona)]_vars

\* a scored section that an appended keyword took from 19 to 20 words, or
\* from 50 to 51
C6_Witness ==
    /\ sc_added = 1
    /\ WordCount(sc_section) \in {ShortSection, LongSection + 1}
    /\ calculate_relevance_score(sc_section, sc_task, sc_persona) > 0

(***************************************************************************)
(* summarize_text (lines 183-238)                                          *)
(***************************************************************************)
\* max_length: int = 200 (line 183)
DefaultSummaryLength == 200

\* line 185
ShortTextWords == 30

\* len(s.split()) > 3 (line 190)
MinSentenceWords == 3

\* len(sentences) <= 2 (line 192)
FewSentences == 2

\* all_words[:10] (line 198)
TopKeywords == 10

\* 10 <= word_count <= 25 (line 214)
MediumLow  == 10
MediumHigh == 25

\* line 190: the stripped sentences of more than 3 words
QualifyingSentences(text) ==
    LET raw == re_split_stops(text)
        ok  == SelectSeq(raw, LAMBDA s : strip(s) # <<>> /\ WordCount(s) > MinSentenceWords)
    IN  List([i \in 1..Len(ok) |-> strip(ok[i])])

\* lines 200-217: the score of sentences[i] (i counts from 1 here, from 0 in
\* the code, so "i < len(sentences) * 0.3" reads 10 * (i - 1) < 3 * len)
SentenceScore(sentences, i, top_keywords) ==
    LET sentence_words  == Range(extract_keywords(sentences[i]))
        keyword_overlap == Cardinality(sentence_words \cap top_keywords)
        word_count      == WordCount(sentences[i])
    IN  keyword_overlap * 2
        + (IF 10 * (i - 1) < 3 * Len(sentences) THEN 1 ELSE 0)
        + (IF MediumLow <= word_count /\ word_count <= MediumHigh THEN 1 ELSE 0)

\* a descending sort that reverses the order of equal keys (an ascending
\* sort, reversed)
SortByScoreDescReversing(items, score) ==
    LET n == Len(items)
        Before(k, i) == score[k] > score[i] \/ (score[k] = score[i] /\ k > i)
        Rank(i) == Cardinality({k \in 1..n : Before(k, i)}) + 1
    IN  List([r \in 1..n |-> items[CHOOSE i \in 1..n : Rank(i) = r]])

\* lines 220 and 341: list.sort(key=score, reverse=True) keeps equal keys in
\* their original order
SortByScoreDesc(items, score) ==
    LET n == Len(items)
        Before(k, i) == score[k] > score[i] \/ (score[k] = score[i] /\ k < i)
        Rank(i) == Cardinality({k \in 1..n : Before(k, i)}) + 1
    IN  List([r \in 1..n |-> items[CHOOSE i \in 1..n : Rank(i) = r]])

\* the selection loop adding a sentence whenever the words so far fit
RECURSIVE TakeWhileFitsLate(_, _, _, _, _)
TakeWhileFitsLate(sorted, i, current_length, max_length, acc) ==
    IF i > Len(sorted) THEN acc
    ELSE IF current_length <= max_length
         THEN TakeWhileFitsLate(sorted, i + 1, current_length + WordCount(sorted[i]),
                                max_length, Append(acc, sorted[i]))
         ELSE acc

\* lines 226-232: add sentences in order until one does not fit, then stop
RECURSIVE TakeWhileFits(_, _, _, _, _)
TakeWhileFits(sorted, i, current_length, max_length, acc) ==
    IF i > Len(sorted) THEN acc
    ELSE IF current_length + WordCount(sorted[i]) <= max_length
         THEN TakeWhileFits(sorted, i + 1, current_length + WordCount(sorted[i]),
                            max_length, Append(acc, sorted[i]))
         ELSE acc

\* lines 196-232: summary_sentences
SummarySentences(text, max_length) ==
    LET sentences    == QualifyingSentences(text)
        all_words    == extract_keywords(text)
        top_keywords == Range(SubSeq(all_words, 1, Min(TopKeywords, Len(all_words))))
        score        == List([i \in 1..Len(sentences) |->
                                 SentenceScore(sentences, i, top_keywords)])
    IN  TakeWhileFits(SortByScoreDesc(sentences, score), 1, 0, max_length, <<>>)

\* lines 185-238: the returned string, with the return statement reached
\* (line 186 "short", 193 "few", 236 "fallback", 238 "summary")
Summarize(text, max_length) ==
    IF WordCount(text) <= ShortTextWords THEN [path |-> "short", text |-> text]
    ELSE LET sentences == QualifyingSentences(text)
         IN  IF Len(sentences) <= FewSentences THEN [path |-> "few", text |-> text]
             ELSE LET summary_sentences == SummarySentences(text, max_length)
                  IN  IF summary_sentences = <<>>
                      THEN [path |-> "fallback",
                            text |-> join(<<".", " ">>,
                                          SubSeq(sentences, 1, Min(2, Len(sentences))))
                                     \o <<".">>]
                      ELSE [path |-> "summary",
                            text |-> join(<<".", " ">>, summary_sentences) \o <<".">>]

summarize_text(text, max_length) == Summarize(text, max_length).text

(***************************************************************************)
(* SumSpec: one call of summarize_text.                                    *)
(***************************************************************************)
MaxSumSentences == 3

\* a sentence: a number of words, all "w" or all but the first "form"
SentenceSizes == {3, 12, 26}
SentenceKinds == {"plain", "keyed"}

SumSentence(size, kind) ==
    IF kind = "plain" THEN Pad(size) \o <<".">>
    ELSE join(<<" ">>, List([i \in 1..size |-> IF i = 1 THEN <<"w">> ELSE <<"f","o","r","m">>])) \o <<".">>

SumTexts ==
    {join(<<" ">>, List([i \in 1..Len(sz) |-> SumSentence(sz[i], kd[i])])) :
        <<sz, kd>> \in UNION {[1..n -> SentenceSizes] \X [1..n -> SentenceKinds] :
                               n \in 1..MaxSumSentences}}

SumBudgets == {4, 12, 40, DefaultSummaryLength}

SumInit ==
    /\ su_pc = "call" /\ su_text \in SumTexts /\ su_max \in SumBudgets
    /\ su_out = <<>>
    /\ SegIdle /\ ScoreIdle /\ TitleIdle /\ RunIdle

\* the call runs to one of its four return statements
SumCall ==
    /\ su_pc = "call"
    /\ LET r == Summarize(su_text, su_max)
       IN  su_out' = r.text /\ su_pc' = r.path
    /\ UNCHANGED <<su_text, su_max>>
    /\ UNCHANGED <<segVars, scoreVars, titleVars, runVars>>

SumNext == SumCall

SumSpec == SumInit /\ [][SumNext]_vars

(***************************************************************************)
(* Properties of summarize_text (SumSpec).                                 *)
(***************************************************************************)
\* C4 (as stated): for every text of more than 30 words and every
\* max_length, the word count of the returned string is at most max_length,
\* on every return path.
C4_OutputWithinBudget ==
    (su_pc \in {"few", "fallback", "summary"} /\ WordCount(su_text) > ShortTextWords)
        => WordCount(su_out) <= su_max

\* C4 (amended): for every text of more than 30 words, when the greedy
\* selection selects at least one sentence (the return of line 238), the
\* word count of the returned string is at most max_length; the returns of
\* line 193 (at most 2 qualifying sentences: the text unchanged) and of
\* line 236 (the first two sentences) are not bounded by max_length.
C4_SelectedSummaryWithinBudget ==
    su_pc = "summary" =>
        /\ WordCount(su_text) > ShortTextWords
        /\ WordCount(su_out) <= su_max

\* a summary of two or more selected sentences that left one out
C4_Witness ==
    /\ su_pc = "summary"
    /\ Contains(su_out, <<".", " ">>)
    /\ WordCount(su_out) < WordCount(su_text)
    /\ WordCount(su_out) + MediumLow > su_max

(***************************************************************************)
(* extract_title_from_text (lines 240-266)                                 *)
(***************************************************************************)
\* max_length: int = 80 (line 240)
DefaultTitleLength == 80

\* lines[:5] (line 247)
TitleLines == 5

\* len(line.split()) >= 3 (line 249)
MinTitleWords == 3

\* len(line) <= 150 (line 249)
MaxTitleLine == 150

\* text.split()[:12] (line 262)
FallbackWords == 12

\* len("...") (lines 258, 265)
EllipsisLen == 3

\* common_words (line 251)
common_words == {<<"t","h","e">>, <<"a">>, <<"a","n">>, <<"a","n","d">>, <<"o","r">>, <<"b","u","t">>, <<"i","n">>,
                 <<"o","n">>, <<"a","t">>, <<"t","o">>, <<"f","o","r">>, <<"o","f">>, <<"w","i","t","h">>}

Ellipsis == <<".",".",".">>

ContentSection == <<"C","o","n","t","e","n","t"," ","S","e","c","t","i","o","n">>

\* s[:k], k of either sign
SliceTo(s, k) ==
    IF k >= 0 THEN SubSeq(s, 1, Min(k, Len(s)))
    ELSE SubSeq(s, 1, IF Len(s) + k > 0 THEN Len(s) + k ELSE 0)

\* s.replace('\n', ' ')
ReplaceNewlines(s) == List([i \in 1..Len(s) |-> IF s[i] = "\n" THEN " " ELSE s[i]])

\* the truncation keeping max_length characters before the dots
TruncateNoRoom(title, max_length) ==
    IF Len(title) > max_length
    THEN [cut |-> TRUE, text |-> SliceTo(title, max_length) \o Ellipsis]
    ELSE [cut |-> FALSE, text |-> title]

\* lines 257-258 and 264-265
Truncate(title, max_length) ==
    IF Len(title) > max_length
    THEN [cut |-> TRUE, text |-> SliceTo(title, max_length - EllipsisLen) \o Ellipsis]
    ELSE [cut |-> FALSE, text |-> title]

\* lines 249-255: the stripped line looks like a title
IsTitleLine(line) ==
    /\ line # <<>>
    /\ WordCount(line) >= MinTitleWords
    /\ Len(line) <= MaxTitleLine
    /\ LET line_words   == split(lower(line))
           common_count == Cardinality({i \in 1..Len(line_words) :
                                           line_words[i] \in common_words})
       IN  2 * common_count < Len(line_words)

\* lines 243-266: the returned title, the return statement reached (line 259
\* "line", 266 "words" or "label") and whether the candidate was cut
ExtractTitle(raw, max_length) ==
    LET text   == clean_text(raw)
        all    == splitOn(text, <<"\n">>)
        lines  == SubSeq(all, 1, Min(TitleLines, Len(all)))
        titles == {i \in 1..Len(lines) : IsTitleLine(strip(lines[i]))}
    IN  IF titles # {}
        THEN LET i == CHOOSE k \in titles : \A j \in titles : k <= j
                 t == Truncate(strip(ReplaceNewlines(strip(lines[i]))), max_length)
             IN  [path |-> "line", cut |-> t.cut, text |-> t.text]
        ELSE LET all_words == split(text)
                 words == SubSeq(all_words, 1, Min(FallbackWords, Len(all_words)))
                 t == Truncate(ReplaceNewlines(join(<<" ">>, words)), max_length)
             IN  IF t.text # <<>>
                 THEN [path |-> "words", cut |-> t.cut, text |-> t.text]
                 ELSE [path |-> "label", cut |-> t.cut, text |-> ContentSection]

extract_title_from_text(raw, max_length) == ExtractTitle(raw, max_length).text

(***************************************************************************)
(* TitleSpec: one call of extract_title_from_text.                         *)
(***************************************************************************)
MaxTitleTokens == 4
MaxTitleBudget == 17
MaxCommonRun   == 14

TitleTokens == {<<"t","h","e">>, <<"O","f">>, <<"A","n","n","u","a","l">>, <<"r","e","p","o","r","t">>, <<"#">>}

TitleTexts ==
    {join(<<" ">>, ws) : ws \in UNION {[1..n -> TitleTokens] : n \in 0..MaxTitleTokens}}

\* k words "the" then "end": a line of mostly common words
CommonRun(k) == join(<<" ">>, List([i \in 1..k |-> <<"t","h","e">>])) \o <<" ","e","n","d">>

\* 38 words "Word" without a space: a line of more than 150 characters
LongWord == join(<<>>, List([i \in 1..38 |-> <<"W","o","r","d">>]))

LongTitleTexts ==
    {CommonRun(k) : k \in (FallbackWords - 2)..MaxCommonRun}
    \cup {LongWord, LongWord \o <<" ","A","n","n","u","a","l"," ","r","e","p","o","r","t"," ","2","0","2","4">>}

TitleBudgets == (1..MaxTitleBudget) \cup {DefaultTitleLength}

ti_cut == ti_pc \in {"line_cut", "words_cut", "label_cut"}

TitleInit ==
    /\ ti_pc = "call"
    /\ ti_text \in TitleTexts \cup LongTitleTexts
    /\ ti_max \in TitleBudgets
    /\ ti_out = <<>>
    /\ SegIdle /\ ScoreIdle /\ SumIdle /\ RunIdle

\* the call runs to one of its return statements
TitleCall ==
    /\ ti_pc = "call"
    /\ LET r == ExtractTitle(ti_text, ti_max)
       IN  /\ ti_out' = r.text
           /\ ti_pc' = IF r.cut THEN r.path \o "_cut" ELSE r.path
    /\ UNCHANGED <<ti_text, ti_max>>
    /\ UNCHANGED <<segVars, scoreVars, sumVars, runVars>>

TitleNext == TitleCall

TitleSpec == TitleInit /\ [][TitleNext]_vars

(***************************************************************************)
(* Properties of extract_title_from_text (TitleSpec).                      *)
(***************************************************************************)
EndsWithEllipsis(s) ==
    Len(s) >= EllipsisLen /\ SubSeq(s, Len(s) - EllipsisLen + 1, Len(s)) = Ellipsis

\* C5 (as stated): for every text and every positive max_length the
\* returned title is at most max_length characters long, and a truncated
\* title ends with "...", on the qualifying-line path, the first-12-words
\* path and the "Content Section" path.
C5_TitleWithinLength ==
    (ti_pc # "call" /\ ti_max >= 1) =>
        /\ Len(ti_out) <= ti_max
        /\ ti_cut => EndsWithEllipsis(ti_out)

\* C5 (amended): for every text and every max_length >= 3, the returned
\* title is at most max_length characters long unless it is the literal
\* "Content Section" (15 characters, returned untruncated when nothing else
\* is left), so on every path once max_length >= 15; and for every positive
\* max_length a truncated title that is returned ends with "...".
C5_TitleWithinLengthFrom3 ==
    /\ (ti_pc # "call" /\ ti_max >= EllipsisLen) =>
           (Len(ti_out) <= ti_max \/ ti_out = ContentSection)
    /\ (ti_pc # "call" /\ ti_max >= Len(ContentSection)) => Len(ti_out) <= ti_max
    /\ (ti_pc \in {"line_cut", "words_cut"} /\ ti_max >= 1) => EndsWithEllipsis(ti_out)

\* a qualifying line cut to a max_length of at least 3
C5_Witness ==
    /\ ti_pc = "line_cut" /\ ti_max >= EllipsisLen
    /\ Len(ti_out) = ti_max /\ EndsWithEllipsis(ti_out)
    /\ Len(ti_out) > EllipsisLen

(***************************************************************************)
(* extract_text_by_page (lines 36-50) and process_documents (lines         *)
(* 268-384), entered from main (lines 385-404) or called directly.         *)
(*                                                                         *)
(* A document of the configuration is [filename, state, pages]: state is   *)
(* what the file system and the PDF library answer ("ok"; "missing":       *)
(* os.path.exists is false; "corrupt": the library raises after the first  *)
(* page, or on open when there is none) and pages[i] is the text of page i. *)
(***************************************************************************)
\* top_k_sections: int = 5 (line 269)
DefaultTopK == 5

\* lines 38-50: the (page_number, text) pairs of the non-blank pages; the
\* pairs collected before an exception are returned too
extract_text_by_page_partial(doc) ==
    LET n == IF doc.state = "corrupt" THEN Min(1, Len(doc.pages)) ELSE Len(doc.pages)
        idx == SortedIdx({i \in 1..n : strip(doc.pages[i]) # <<>>}, 1, n)
    IN  List([j \in 1..Len(idx) |-> [page_number |-> idx[j], text |-> doc.pages[idx[j]]]])

\* lines 38-50: the (page_number, text) pairs of the non-blank pages, or []
\* when the library raises
extract_text_by_page(doc) ==
    IF doc.state = "corrupt" THEN <<>>
    ELSE LET n   == Len(doc.pages)
             idx == SortedIdx({i \in 1..n : strip(doc.pages[i]) # <<>>}, 1, n)
         IN  List([j \in 1..Len(idx) |->
                      [page_number |-> idx[j], text |-> doc.pages[idx[j]]]])

\* lines 328-338: the records of one page's sections
PageRecords(filename, page, job_task, persona_role) ==
    LET sections == split_sections(page.text, DefaultMinWords)
    IN  List([k \in 1..Len(sections) |->
                [document    |-> filename,
                 page_number |-> page.page_number,
                 text        |-> sections[k],
                 score       |-> calculate_relevance_score(sections[k], job_task,
                                                           persona_role)]])

\* lines 317-338: the records of the pages of one document, page by page
RECURSIVE PagesRecords(_, _, _, _, _)
PagesRecords(filename, pages, i, job_task, persona_role) ==
    IF i > Len(pages) THEN <<>>
    ELSE (IF strip(pages[i].text) = <<>> THEN <<>>
          ELSE PageRecords(filename, pages[i], job_task, persona_role))
         \o PagesRecords(filename, pages, i + 1, job_task, persona_role)

\* line 341: all_scored_sections.sort(key=score, reverse=True)
SortSections(records) ==
    SortByScoreDesc(records, List([i \in 1..Len(records) |-> records[i].score]))

\* line 344: all_scored_sections[:top_k_sections]
TopSections(records, k) == SliceTo(records, k)

\* the output loop numbering the sections from 0
FormatSectionsFromZero(top) ==
    [extracted_sections |->
         List([i \in 1..Len(top) |->
                 [document        |-> top[i].document,
                  section_title   |-> extract_title_from_text(top[i].text,
                                                              DefaultTitleLength),
                  importance_rank |-> i - 1,
                  page_number     |-> top[i].page_number]]),
     subsection_analysis |->
         List([i \in 1..Len(top) |->
                 [document     |-> top[i].document,
                  refined_text |-> summarize_text(top[i].text, DefaultSummaryLength),
                  page_number  |-> top[i].page_number]])]

\* lines 347-368: for i, section_data in enumerate(top_sections, 1)
FormatSections(top) ==
    [extracted_sections |->
         List([i \in 1..Len(top) |->
                 [document        |-> top[i].document,
                  section_title   |-> extract_title_from_text(top[i].text,
                                                              DefaultTitleLength),
                  importance_rank |-> i,
                  page_number     |-> top[i].page_number]]),
     subsection_analysis |->
         List([i \in 1..Len(top) |->
                 [document     |-> top[i].document,
                  refined_text |-> summarize_text(top[i].text, DefaultSummaryLength),
                  page_number  |-> top[i].page_number]])]

(***************************************************************************)
(* RunSpec: one run.                                                       *)
(***************************************************************************)
MaxDocs == 2
MaxTopK == 2

\* persona.role and job_to_be_done.task of the configuration (lines 287-288)
RunPersona == <<"H","R"," ","M","a","n","a","g","e","r">>
RunTask    == <<"c","r","e","a","t","e"," ","o","n","b","o","a","r","d","i","n","g"," ","f","o","r","m","s"," ","f","o","r"," ","n","e","w"," ","e","m","p","l","o","y","e","e","s">>

PageForm  == <<"T","o"," ","f","i","l","l"," ","t","h","e"," ","e","m","p","l","o","y","e","e"," ","o","n","b","o","a","r","d","i","n","g"," ","f","o","r","m",","," ","f","o","l","l","o","w"," ","t","h","e","s","e"," ","s","t","e","p","s",":"," ","1","."," ","S","i","g","n"," ","t","h","e"," ","f","o","r","m","."," ","2","."," ","S","u","b","m","i","t"," ","i","t"," ","t","o"," ","y","o","u","r"," ","m","a","n","a","g","e","r",".">>
PagePlain == Pad(DefaultMinWords + 1)
PageShare == <<"M","a","n","a","g","e","r","s"," ","s","h","a","r","e"," ","r","e","p","o","r","t","s"," ","a","n","d"," ","e","x","p","o","r","t"," ","d","a","t","a",".","\n">> \o Pad(DefaultMinWords)
PageShort == <<"T","o","o"," ","s","h","o","r","t"," ","t","o"," ","b","e"," ","a"," ","s","e","c","t","i","o","n",".">>
PageBlank == <<" ","\n"," ">>

DocKinds == {
    [state |-> "ok",      pages |-> <<PageForm, PagePlain>>],
    [state |-> "ok",      pages |-> <<PagePlain, PageShare>>],
    [state |-> "ok",      pages |-> <<PageBlank, PageShort, PageShare>>],
    [state |-> "missing", pages |-> <<PageForm>>],
    [state |-> "corrupt", pages |-> <<PageShare, PagePlain>>] }

Filename(i) == "doc" \o ToString(i) \o ".pdf"

\* the "documents" list of the configuration: distinct file names
DocumentLists ==
    {[i \in 1..n |-> [filename |-> Filename(i), state |-> ks[i].state,
                      pages |-> ks[i].pages]] :
        <<n, ks>> \in UNION {{n} \X [1..n -> DocKinds] : n \in 0..MaxDocs}}

RunInit ==
    /\ cfg \in {"ok", "missing", "unparsable"}
    /\ documents \in DocumentLists
    /\ \/ pc = "main" /\ top_k = DefaultTopK
       \/ pc = "load" /\ top_k \in 0..MaxTopK
    /\ doc_i = 0 /\ opened = <<>> /\ input_documents = <<>>
    /\ all_scored_sections = <<>> /\ top_sections = <<>>
    /\ extracted_sections = <<>> /\ subsection_analysis = <<>>
    /\ writes = 0 /\ write_failed = FALSE
    /\ SegIdle /\ ScoreIdle /\ SumIdle /\ TitleIdle

runRest == <<documents, top_k, cfg, segVars, scoreVars, sumVars, titleVars>>

\* main, lines 387-400: no input file, return
MainMissing ==
    /\ pc = "main" /\ cfg = "missing"
    /\ pc' = "returned"
    /\ UNCHANGED <<runRest, doc_i, opened, input_documents, all_scored_sections,
                   top_sections, extracted_sections, subsection_analysis,
                   writes, write_failed>>

\* main, lines 402-403
MainCalls ==
    /\ pc = "main" /\ cfg # "missing"
    /\ pc' = "load"
    /\ UNCHANGED <<runRest, doc_i, opened, input_documents, all_scored_sections,
                   top_sections, extracted_sections, subsection_analysis,
                   writes, write_failed>>

\* the configuration error handled by going on with an empty configuration
LoadConfigFailsOn ==
    /\ pc = "load" /\ cfg # "ok"
    /\ pc' = "docs" /\ doc_i' = 1
    /\ UNCHANGED <<runRest, opened, input_documents, all_scored_sections,
                   top_sections, extracted_sections, subsection_analysis,
                   writes, write_failed>>

\* lines 274-279: the configuration cannot be read or parsed: log, return
LoadConfigFails ==
    /\ pc = "load" /\ cfg # "ok"
    /\ pc' = "returned"
    /\ UNCHANGED <<runRest, doc_i, opened, input_documents, all_scored_sections,
                   top_sections, extracted_sections, subsection_analysis,
                   writes, write_failed>>

\* lines 274-302: the configuration is read
LoadConfig ==
    /\ pc = "load" /\ cfg = "ok"
    /\ input_documents' = List([i \in 1..Len(documents) |-> documents[i].filename])
    /\ all_scored_sections' = <<>>
    /\ pc' = "docs" /\ doc_i' = 1
    /\ UNCHANGED <<runRest, opened, top_sections, extracted_sections,
                   subsection_analysis, writes, write_failed>>

\* the missing file ending the loop over the documents
SkipMissingBreaks ==
    /\ pc = "docs" /\ doc_i <= Len(documents)
    /\ documents[doc_i].state = "missing"
    /\ doc_i' = Len(documents) + 1
    /\ UNCHANGED <<runRest, pc, opened, input_documents, all_scored_sections,
                   top_sections, extracted_sections, subsection_analysis,
                   writes, write_failed>>

\* lines 305-310: the file does not exist: warn, continue
SkipMissing ==
    /\ pc = "docs" /\ doc_i <= Len(documents)
    /\ documents[doc_i].state = "missing"
    /\ doc_i' = doc_i + 1
    /\ UNCHANGED <<runRest, pc, opened, input_documents, all_scored_sections,
                   top_sections, extracted_sections, subsection_analysis,
                   writes, write_failed>>

\* lines 305-338: one document extracted, split and scored
ProcessDocument ==
    /\ pc = "docs" /\ doc_i <= Len(documents)
    /\ documents[doc_i].state # "missing"
    /\ opened' = Append(opened, documents[doc_i].filename)
    /\ all_scored_sections' =
           all_scored_sections \o
           PagesRecords(documents[doc_i].filename,
                        extract_text_by_page(documents[doc_i]), 1,
                        RunTask, RunPersona)
    /\ doc_i' = doc_i + 1
    /\ UNCHANGED <<runRest, pc, input_documents, top_sections, extracted_sections,
                   subsection_analysis, writes, write_failed>>

\* lines 340-344
SortAndTake ==
    /\ pc = "docs" /\ doc_i > Len(documents)
    /\ all_scored_sections' = SortSections(all_scored_sections)
    /\ top_sections' = TopSections(all_scored_sections', top_k)
    /\ pc' = "format"
    /\ UNCHANGED <<runRest, doc_i, opened, input_documents, extracted_sections,
                   subsection_analysis, writes, write_failed>>

\* lines 346-375
FormatOutput ==
    /\ pc = "format"
    /\ LET out == FormatSections(top_sections)
       IN  /\ extracted_sections' = out.extracted_sections
           /\ subsection_analysis' = out.subsection_analysis
    /\ pc' = "write"
    /\ UNCHANGED <<runRest, doc_i, opened, input_documents, all_scored_sections,
                   top_sections, writes, write_failed>>

\* lines 378-382: the output file is written
WriteOutput ==
    /\ pc = "write"
    /\ writes' = writes + 1
    /\ pc' = "returned"
    /\ UNCHANGED <<runRest, doc_i, opened, input_documents, all_scored_sections,
                   top_sections, extracted_sections, subsection_analysis,
                   write_failed>>

\* lines 383-384: writing raises: log, return
WriteFails ==
    /\ pc = "write"
    /\ write_failed' = TRUE
    /\ pc' = "returned"
    /\ UNCHANGED <<runRest, doc_i, opened, input_documents, all_scored_sections,
                   top_sections, extracted_sections, subsection_analysis, writes>>

RunNext ==
    \/ MainMissing \/ MainCalls \/ LoadConfigFails \/ LoadConfig
    \/ SkipMissing \/ ProcessDocument \/ SortAndTake \/ FormatOutput
    \/ WriteOutput \/ WriteFails

RunSpec == RunInit /\ [][RunNext]_vars

(***************************************************************************)
(* Properties of process_documents (RunSpec).                              *)
(***************************************************************************)
OutputReady == cfg = "ok" /\ pc \in {"write", "returned"}

\* C1: in every run that reaches the output step, extracted_sections and
\* subsection_analysis have the same length N = min(top_k, number of
\* sections scored), and the importance_rank values, in array order, are
\* 1, 2, ..., N.
C1_RanksContiguous ==
    OutputReady =>
        /\ Len(extracted_sections) = Min(top_k, Len(all_scored_sections))
        /\ Len(subsection_analysis) = Len(extracted_sections)
        /\ \A i \in 1..Len(extracted_sections) :
               extracted_sections[i].importance_rank = i

\* a written output that kept top_k >= 2 sections and left some out
C1_Witness ==
    /\ pc = "returned" /\ writes = 1
    /\ top_k >= 2 /\ Len(extracted_sections) = top_k
    /\ Len(all_scored_sections) > top_k

\* new holds the records of old by descending score, equal scores in the
\* order they have in old
IsStableDescendingOrder(old, new) ==
    /\ Len(new) = Len(old)
    /\ \A i \in 1..Len(old) : InSeq(old[i], new)
    /\ \A a, b \in 1..Len(new) : a < b => new[a].score >= new[b].score
    /\ \A i, j \in 1..Len(old) :
           (i < j /\ old[i].score = old[j].score) =>
               \E a, b \in 1..Len(new) : a < b /\ new[a] = old[i] /\ new[b] = old[j]

DocIndex(filename) ==
    CHOOSE d \in 1..Len(documents) : documents[d].filename = filename

\* the records are in encounter order: by document of the list, then by
\* page, then as split_sections returns the sections of the page
InEncounterOrder(records) ==
    /\ \A i, j \in 1..Len(records) :
           i < j =>
               \/ DocIndex(records[i].document) < DocIndex(records[j].document)
               \/ /\ records[i].document = records[j].document
                  /\ records[i].page_number <= records[j].page_number
    /\ \A d \in 1..Len(documents) : \A p \in 1..Len(documents[d].pages) :
           LET mine == SelectSeq(records,
                           LAMBDA r : r.document = documents[d].filename
                                      /\ r.page_number = p)
           IN  mine # <<>> =>
                   List([k \in 1..Len(mine) |-> mine[k].text])
                       = split_sections(documents[d].pages[p], DefaultMinWords)

\* C2: the sort puts all scored sections in descending score order, keeping
\* sections of equal score in encounter order (document list order, page
\* order, split_sections order); the retained records are the first top_k of
\* that order, so no section left out scores higher than a retained one;
\* and the i-th output entry, of rank i, is the i-th retained record.
C2_StableDescendingRanking ==
    [][ /\ (pc = "docs" /\ pc' = "format") =>
               /\ InEncounterOrder(all_scored_sections)
               /\ IsStableDescendingOrder(all_scored_sections, all_scored_sections')
               /\ top_sections' = SubSeq(all_scored_sections', 1,
                                         Min(top_k, Len(all_scored_sections')))
        /\ (pc = "format" /\ pc' = "write") =>
               /\ Len(extracted_sections') = Len(top_sections)
               /\ \A i \in 1..Len(top_sections) :
                      /\ extracted_sections'[i].importance_rank = i
                      /\ extracted_sections'[i].document = top_sections[i].document
                      /\ extracted_sections'[i].page_number = top_sections[i].page_number
                      /\ subsection_analysis'[i].document = top_sections[i].document
                      /\ subsection_analysis'[i].page_number = top_sections[i].page_number
      ]_vars

\* an output where two documents tie on score and keep their order, and a
\* section of the later document outranks one of the earlier
C2_Witness ==
    /\ pc = "returned" /\ writes = 1
    /\ \E i, j \in 1..Len(top_sections) :
           /\ i < j
           /\ top_sections[i].score = top_sections[j].score
           /\ DocIndex(top_sections[i].document) < DocIndex(top_sections[j].document)
    /\ \E i, j \in 1..Len(top_sections) :
           /\ i < j
           /\ top_sections[i].score > top_sections[j].score
           /\ DocIndex(top_sections[i].document) > DocIndex(top_sections[j].document)
    /\ Len(all_scored_sections) > Len(top_sections)

\* every page of a document, numbered from 1
AllPages(doc) ==
    List([i \in 1..Len(doc.pages) |-> [page_number |-> i, text |-> doc.pages[i]]])

\* the records of a document list in which every file opens and extracts
RECURSIVE RecordsOf(_, _)
RecordsOf(docs, i) ==
    IF i > Len(docs) THEN <<>>
    ELSE PagesRecords(docs[i].filename, AllPages(docs[i]), 1, RunTask, RunPersona)
         \o RecordsOf(docs, i + 1)

\* C7: a listed document that does not exist, or whose extraction fails,
\* contributes no section and does not stop the run: every other document
\* is still opened, split and scored, the output step is reached, and
\* extracted_sections and subsection_analysis are those of a run whose
\* document list omits the failing documents; metadata.input_documents
\* still names every listed document.
C7_FailedDocumentsContributeNothing ==
    /\ OutputReady =>
           LET good == SelectSeq(documents, LAMBDA d : d.state = "ok")
               ref  == FormatSections(
                           TopSections(SortSections(RecordsOf(good, 1)), top_k))
               there == SelectSeq(documents, LAMBDA d : d.state # "missing")
           IN  /\ extracted_sections = ref.extracted_sections
               /\ subsection_analysis = ref.subsection_analysis
               /\ input_documents =
                      List([i \in 1..Len(documents) |-> documents[i].filename])
               /\ opened = List([i \in 1..Len(there) |-> there[i].filename])
    /\ (cfg = "ok" /\ pc = "returned") => (writes = 1 \/ write_failed)

\* a written output holding a section of a document listed after a missing
\* or corrupt one
C7_Witness ==
    /\ pc = "returned" /\ writes = 1
    /\ \E i, j \in 1..Len(documents) :
           /\ i < j
           /\ documents[i].state # "ok"
           /\ documents[j].state = "ok"
           /\ \E k \in 1..Len(extracted_sections) :
                  extracted_sections[k].document = documents[j].filename

\* C8: when the configuration is missing or cannot be parsed the run ends at
\* once: no document is opened, no section is scored, nothing is written,
\* and the call returns; in every run the output is written at most once,
\* and only after every listed document has been processed.
C8_ConfigErrorAbortsRun ==
    /\ cfg # "ok" =>
           /\ pc \in {"main", "load", "returned"}
           /\ opened = <<>> /\ all_scored_sections = <<>>
           /\ extracted_sections = <<>> /\ subsection_analysis = <<>>
           /\ writes = 0 /\ ~write_failed
    /\ writes <= 1
    /\ (writes = 1 \/ write_failed) =>
           /\ pc = "returned"
           /\ doc_i = Len(documents) + 1
           /\ Len(opened) = Cardinality({d \in 1..Len(documents) :
                                             documents[d].state # "missing"})

\* a call with an unparsable configuration that lists a readable document
\* has returned
C8_Witness ==
    /\ cfg = "unparsable" /\ pc = "returned"
    /\ \E d \in 1..Len(documents) : documents[d].state = "ok"

=============================================================================
